---- MODULE Spec2Model ----
(***************************************************************************)
(* myapp: a command line with nested subcommands (config get/set, server,  *)
(* remote).  main() parses the argument list with the grammar declared in  *)
(* src/cli.rs and prints one acknowledgment line for the parsed command.   *)
(*                                                                         *)
(* Strings are sequences of one-character strings, so that the lexer, the  *)
(* number parser and the formatter work on characters.  A printed line is  *)
(* the sequence of fragments println! writes: the literal pieces of the    *)
(* format string and the formatted arguments, in order.                    *)
(***************************************************************************)
EXTENDS Integers, Sequences, FiniteSets, TLC

VARIABLES argv, pc, opts, stdout, engineOut, exitCode

vars == <<argv, pc, opts, stdout, engineOut, exitCode>>

(***************************************************************************)
(* Bounds of the explored inputs.                                          *)
(***************************************************************************)
MaxAnyArgs == 2
MaxServerArgs == 3
MaxRemoteArgs == 4
MaxGetArgs == 3
MaxSetArgs == 3

(***************************************************************************)
(* Widths of the typed fields.                                             *)
(***************************************************************************)
U16Max == 65535
U8Max == 255

\* default_value_t = 8080
DefaultPortValue == 8080

(***************************************************************************)
(* Names of the grammar: commands, long options, enumeration values.       *)
(***************************************************************************)
Str_config == <<"c","o","n","f","i","g">>
Str_get == <<"g","e","t">>
Str_set == <<"s","e","t">>
Str_server == <<"s","e","r","v","e","r">>
Str_remote == <<"r","e","m","o","t","e">>
Str_help == <<"h","e","l","p">>
Str_version == <<"v","e","r","s","i","o","n">>
Str_port == <<"p","o","r","t">>
Str_addr == <<"a","d","d","r">>
Str_verbose == <<"v","e","r","b","o","s","e">>
Str_url == <<"u","r","l">>
Str_remove == <<"r","e","m","o","v","e">>
Str_format == <<"f","o","r","m","a","t">>
Str_global == <<"g","l","o","b","a","l">>
Str_plain == <<"p","l","a","i","n">>
Str_json == <<"j","s","o","n">>
Str_Plain == <<"P","l","a","i","n">>
Str_Json == <<"J","s","o","n">>
Str_true == <<"t","r","u","e">>
Str_false == <<"f","a","l","s","e">>
DefaultAddr == <<"1","2","7",".","0",".","0",".","1">>

(***************************************************************************)
(* Literal pieces of the format strings of main().                         *)
(***************************************************************************)
Fmt_server_1 == <<"s","e","r","v","e","r"," ","s","t","a","r","t"," ","o","n"," ">>
Fmt_server_2 == <<":">>
Fmt_server_3 == <<" ","(","v","e","r","b","o","s","i","t","y",":"," ">>
Fmt_close == <<")">>
Fmt_removed == <<"r","e","m","o","t","e"," ","r","e","m","o","v","e","d",":"," ">>
Fmt_added_1 == <<"r","e","m","o","t","e"," ","a","d","d","e","d",":"," ">>
Fmt_added_2 == <<" ","-",">"," ">>
Fmt_info == <<"r","e","m","o","t","e"," ","i","n","f","o"," ","r","e","q","u","e","s","t","e","d",":"," ">>
Fmt_get_1 == <<"c","o","n","f","i","g"," ","g","e","t"," ">>
Fmt_get_2 == <<" ","(","f","o","r","m","a","t",":"," ">>
Fmt_set_1 == <<"c","o","n","f","i","g"," ","s","e","t"," ">>
Fmt_set_2 == <<"=">>
Fmt_set_3 == <<" ","(","g","l","o","b","a","l",":"," ">>

(***************************************************************************)
(* Characters and numbers.                                                 *)
(***************************************************************************)
Digits == <<"0","1","2","3","4","5","6","7","8","9">>

IsDigit(c) == \E d \in 1..10 : Digits[d] = c

DigitVal(c) == (CHOOSE d \in 1..10 : Digits[d] = c) - 1

Min(a, b) == IF a < b THEN a ELSE b

\* First index of character c in s, 0 when absent.
IndexOf(s, c) ==
  IF \E i \in 1..Len(s) : s[i] = c
  THEN CHOOSE i \in 1..Len(s) : s[i] = c /\ \A j \in 1..(i-1) : s[j] # c
  ELSE 0

Drop(s, n) == SubSeq(s, n + 1, Len(s))

\* Magnitude of a run of decimal digits.  A magnitude above U16Max is out
\* of range whatever follows, so it is carried on without growing further.
RECURSIVE Magnitude(_, _)
Magnitude(ds, acc) ==
  IF ds = <<>> THEN acc
  ELSE Magnitude(Tail(ds), IF acc > U16Max THEN acc ELSE acc * 10 + DigitVal(Head(ds)))

\* Integer parsing of the value parser: an optional sign, then one or more
\* decimal digits.
ParseInt(s) ==
  LET signed == s # <<>> /\ Head(s) \in {"+", "-"}
      ds     == IF signed THEN Tail(s) ELSE s
      mag    == Magnitude(ds, 0)
  IN  IF ds = <<>> \/ \E i \in 1..Len(ds) : ~IsDigit(ds[i])
      THEN [ok |-> FALSE, val |-> 0]
      ELSE [ok |-> TRUE, val |-> IF signed /\ Head(s) = "-" THEN 0 - mag ELSE mag]

\* Range check of a u16 field: wrap-around instead of rejection.
WrapU16(s) ==
  LET r == ParseInt(s)
  IN  IF r.ok THEN [ok |-> TRUE, val |-> r.val % (U16Max + 1)] ELSE r

\* pub port: u16
ParseU16(s) ==
  LET r == ParseInt(s)
  IN  IF r.ok /\ r.val >= 0 /\ r.val <= U16Max THEN r ELSE [ok |-> FALSE, val |-> 0]

\* Display of an unsigned integer: decimal, no leading zeros.
RECURSIVE FmtNat(_)
FmtNat(n) ==
  IF n < 10 THEN <<Digits[n + 1]>>
  ELSE FmtNat(n \div 10) \o <<Digits[(n % 10) + 1]>>

\* Display of bool.
FmtBool(b) == IF b THEN Str_true ELSE Str_false

\* Debug of OutputFormat (derived): the variant name.
FmtFormat(f) == IF f = "Json" THEN Str_Json ELSE Str_Plain

\* The text of a printed line: its fragments joined.
RECURSIVE Text(_)
Text(line) == IF line = <<>> THEN <<>> ELSE Head(line) \o Text(Tail(line))

(***************************************************************************)
(* The command grammar of src/cli.rs.  A command is named by its tag:      *)
(* "myapp" (the root), "config", "server", "remote", "get", "set".         *)
(***************************************************************************)
HelpArg == [id |-> "help", long |-> Str_help, short |-> "h", action |-> "Help", parser |-> "none"]

VersionArg == [id |-> "version", long |-> Str_version, short |-> "V", action |-> "Version", parser |-> "none"]

PortArg == [id |-> "port", long |-> Str_port, short |-> "p", action |-> "Set", parser |-> "u16"]

AddrArg == [id |-> "addr", long |-> Str_addr, short |-> "", action |-> "Set", parser |-> "string"]

VerboseArg == [id |-> "verbose", long |-> Str_verbose, short |-> "v", action |-> "Count", parser |-> "none"]

UrlArg == [id |-> "url", long |-> Str_url, short |-> "", action |-> "Set", parser |-> "string"]

RemoveArg == [id |-> "remove", long |-> Str_remove, short |-> "", action |-> "SetTrue", parser |-> "none"]

FormatArg == [id |-> "format", long |-> Str_format, short |-> "", action |-> "Set", parser |-> "format"]

GlobalArg == [id |-> "global", long |-> Str_global, short |-> "", action |-> "SetTrue", parser |-> "none"]

ArgIds == {"help", "version", "port", "addr", "verbose", "url", "remove", "format", "global"}

\* The flags and options of a command.  Every command has --help/-h; only
\* the root, which sets `version`, has --version/-V.
ArgsOf(cmd) ==
  {HelpArg} \cup
  CASE cmd = "myapp"  -> {VersionArg}
    [] cmd = "server" -> {PortArg, AddrArg, VerboseArg}
    [] cmd = "remote" -> {UrlArg, RemoveArg}
    [] cmd = "get"    -> {FormatArg}
    [] cmd = "set"    -> {GlobalArg}
    [] OTHER          -> {}

\* The required positional arguments of a command, in order.
PositionalsOf(cmd) ==
  CASE cmd = "remote" -> <<"name">>
    [] cmd = "get"    -> <<"key">>
    [] cmd = "set"    -> <<"key", "value">>
    [] OTHER          -> <<>>

\* The subcommands of a command; a command that has subcommands also has
\* the `help` subcommand.
Subcommands(cmd) ==
  CASE cmd = "myapp"  -> {[name |-> Str_config, id |-> "config"],
                          [name |-> Str_server, id |-> "server"],
                          [name |-> Str_remote, id |-> "remote"],
                          [name |-> Str_help, id |-> "help"]}
    [] cmd = "config" -> {[name |-> Str_get, id |-> "get"],
                          [name |-> Str_set, id |-> "set"],
                          [name |-> Str_help, id |-> "help"]}
    [] OTHER          -> {}

\* value_enum that also accepts the variant names as written in the source.
FormatOfAnyCase(v) ==
  IF v \in {Str_plain, Str_Plain} THEN <<"Plain">>
  ELSE IF v \in {Str_json, Str_Json} THEN <<"Json">>
  ELSE <<>>

\* value_enum on OutputFormat: the accepted spellings, case-sensitive.
FormatOf(v) ==
  IF v = Str_plain THEN <<"Plain">>
  ELSE IF v = Str_json THEN <<"Json">>
  ELSE <<>>

\* Value parsers with the port taken as free text.
ValueOkPortAsText(arg, v) ==
  CASE arg.parser = "format" -> FormatOf(v) # <<>>
    [] OTHER                 -> TRUE

\* Does the value parser of the argument accept the raw value?
ValueOk(arg, v) ==
  CASE arg.parser = "u16"    -> ParseU16(v).ok
    [] arg.parser = "format" -> FormatOf(v) # <<>>
    [] OTHER                 -> TRUE

(***************************************************************************)
(* The parsing engine, as configured by the grammar.  A matcher holds what *)
(* has been parsed for the current command: the raw values of options and  *)
(* presence flags, the occurrence counts, the positional values, whether   *)
(* `--` was seen, and the option that still waits for its value.           *)
(***************************************************************************)
NewMatcher ==
  [set |-> [a \in ArgIds |-> <<>>], count |-> [a \in ArgIds |-> 0],
   pos |-> <<>>, trailing |-> FALSE, pending |-> ""]

\* Lexical classes of a token.
IsEscape(t) == t = <<"-", "-">>

IsLong(t) == Len(t) > 2 /\ t[1] = "-" /\ t[2] = "-"

IsShort(t) == Len(t) >= 2 /\ t[1] = "-" /\ t[2] # "-"

\* An occurrence counter that wraps at the width of the field.
WrappingAdd(n) == (n + 1) % (U8Max + 1)

\* ArgAction::Count on a u8: the count stops at the largest value.
SaturatingAdd(n) == IF n >= U8Max THEN U8Max ELSE n + 1

Step(kind, m) == [kind |-> kind, m |-> m]

\* A value arrives for an option: rejected when the option already has a
\* value or the value parser refuses it.
PushValue(m, arg, v) ==
  IF m.set[arg.id] # <<>> \/ ~ValueOk(arg, v)
  THEN Step("error", m)
  ELSE Step("cont", [m EXCEPT !.set[arg.id] = <<v>>, !.pending = ""])

\* One occurrence of a flag or option, with the value attached to it (by
\* `=` or in the same short cluster), if any.  An option still waiting for
\* its value is resolved first, and fails for want of a value.
React(m, arg, attached) ==
  IF m.pending # "" THEN Step("error", m)
  ELSE CASE arg.action = "Help" ->
              IF attached # <<>> THEN Step("error", m) ELSE Step("help", m)
         [] arg.action = "Version" ->
              IF attached # <<>> THEN Step("error", m) ELSE Step("version", m)
         [] arg.action = "SetTrue" ->
              IF attached # <<>> \/ m.set[arg.id] # <<>>
              THEN Step("error", m)
              ELSE Step("cont", [m EXCEPT !.set[arg.id] = <<Str_true>>])
         [] arg.action = "Count" ->
              IF attached # <<>>
              THEN Step("error", m)
              ELSE Step("cont", [m EXCEPT !.count[arg.id] = SaturatingAdd(@)])
         [] OTHER ->
              IF attached = <<>>
              THEN Step("cont", [m EXCEPT !.pending = arg.id])
              ELSE PushValue(m, arg, attached[1])

\* A long token: --name or --name=value.
ParseLong(cmd, m, tok) ==
  LET eq       == IndexOf(tok, "=")
      name     == IF eq = 0 THEN Drop(tok, 2) ELSE SubSeq(tok, 3, eq - 1)
      attached == IF eq = 0 THEN <<>> ELSE <<Drop(tok, eq)>>
      found    == {a \in ArgsOf(cmd) : a.long = name}
  IN  IF found = {} THEN Step("error", m)
      ELSE React(m, CHOOSE a \in found : TRUE, attached)

\* One character of a short cluster: a flag, or an option that takes the
\* rest of the cluster (less a leading `=`) as its value and so ends the
\* cluster ("taken").
ShortFlag(cmd, m, tok, j) ==
  LET found == {a \in ArgsOf(cmd) : a.short = tok[j]}
  IN  IF found = {} THEN Step("error", m)
      ELSE LET arg  == CHOOSE a \in found : TRUE
               rest == Drop(tok, j)
               val  == IF Head(rest) = "=" THEN Tail(rest) ELSE rest
           IN  IF arg.action = "Set"
               THEN LET r == React(m, arg, IF rest = <<>> THEN <<>> ELSE <<val>>)
                    IN  IF r.kind = "cont" THEN Step("taken", r.m) ELSE r
               ELSE React(m, arg, <<>>)

\* The characters lo..hi of a short cluster, left to right, stopping at the
\* first that does not continue.  The loop over the characters is unfolded
\* by halves, which keeps the order and bounds the depth of the recursion.
RECURSIVE ShortFlags(_, _, _, _, _)
ShortFlags(cmd, m, tok, lo, hi) ==
  IF lo = hi THEN ShortFlag(cmd, m, tok, lo)
  ELSE LET mid == (lo + hi) \div 2
           r   == ShortFlags(cmd, m, tok, lo, mid)
       IN  IF r.kind = "cont" THEN ShortFlags(cmd, r.m, tok, mid + 1, hi) ELSE r

\* A short cluster: -abc.
ParseShort(cmd, m, tok) ==
  LET r == ShortFlags(cmd, m, tok, 2, Len(tok))
  IN  IF r.kind = "taken" THEN Step("cont", r.m) ELSE r

\* The `help` subcommand: the rest of the line names the command to describe.
RECURSIVE HelpPath(_, _)
HelpPath(cmd, rest) ==
  IF rest = <<>> THEN "help"
  ELSE LET found == {s \in Subcommands(cmd) : s.name = Head(rest)}
       IN  IF found = {} THEN "error"
           ELSE HelpPath((CHOOSE s \in found : TRUE).id, Tail(rest))

Outcome(kind, cmd, m) == [kind |-> kind, cmd |-> cmd, m |-> m]

\* End of the argument list reached while parsing with no subcommand requirement.
FinishOptionalSubcommand(cmd, m) ==
  IF m.pending # "" \/ Len(m.pos) < Len(PositionalsOf(cmd))
  THEN Outcome("error", cmd, m)
  ELSE Outcome("ok", cmd, m)

\* End of the argument list: an option without its value, a missing
\* subcommand (command: Commands and action: ConfigAction are not optional)
\* and a missing positional are errors.
Finish(cmd, m) ==
  IF m.pending # "" \/ Subcommands(cmd) # {} \/ Len(m.pos) < Len(PositionalsOf(cmd))
  THEN Outcome("error", cmd, m)
  ELSE Outcome("ok", cmd, m)

\* The parse of args from its i-th token on, inside command cmd.
RECURSIVE ParseLoop(_, _, _, _)
ParseLoop(args, cmd, m, i) ==
  IF i > Len(args) THEN Finish(cmd, m)
  ELSE
    LET tok == args[i]
        sub == {s \in Subcommands(cmd) : s.name = tok}
        Go(r) == IF r.kind = "cont" THEN ParseLoop(args, cmd, r.m, i + 1)
                 ELSE Outcome(r.kind, cmd, r.m)
    IN  IF ~m.trailing /\ m.pending = "" /\ sub # {}
        THEN LET s == CHOOSE x \in sub : TRUE
             IN  IF s.id = "help"
                 THEN Outcome(HelpPath(cmd, Drop(args, i)), cmd, m)
                 ELSE ParseLoop(args, s.id, NewMatcher, i + 1)
        ELSE IF ~m.trailing /\ IsEscape(tok)
        THEN ParseLoop(args, cmd, [m EXCEPT !.trailing = TRUE], i + 1)
        ELSE IF ~m.trailing /\ IsLong(tok)
        THEN Go(ParseLong(cmd, m, tok))
        ELSE IF ~m.trailing /\ IsShort(tok)
        THEN Go(ParseShort(cmd, m, tok))
        ELSE IF ~m.trailing /\ m.pending # ""
        THEN Go(PushValue(m, CHOOSE a \in ArgsOf(cmd) : a.id = m.pending, tok))
        ELSE IF m.pending # "" \/ Len(m.pos) >= Len(PositionalsOf(cmd))
        THEN Outcome("error", cmd, m)
        ELSE ParseLoop(args, cmd, [m EXCEPT !.pos = Append(@, tok)], i + 1)

\* Cli::parse(): the parse of the whole argument list (without argv[0]).
Parse(args) == ParseLoop(args, "myapp", NewMatcher, 1)

\* The value of an option, or its declared default.
ValueOr(vals, default) == IF vals = <<>> THEN default ELSE vals[1]

\* The typed command value built from a successful parse.
FromArgMatches(cmd, m) ==
  CASE cmd = "server" ->
         [command |-> "Server",
          port    |-> ParseU16(ValueOr(m.set["port"], FmtNat(DefaultPortValue))).val,
          addr    |-> ValueOr(m.set["addr"], DefaultAddr),
          verbose |-> m.count["verbose"]]
    [] cmd = "remote" ->
         [command |-> "Remote", name |-> m.pos[1], url |-> m.set["url"],
          remove  |-> m.set["remove"] # <<>>]
    [] cmd = "get" ->
         [command |-> "Config", action |-> "Get", key |-> m.pos[1],
          format  |-> FormatOf(ValueOr(m.set["format"], Str_plain))[1]]
    [] cmd = "set" ->
         [command |-> "Config", action |-> "Set", key |-> m.pos[1],
          value   |-> m.pos[2], global |-> m.set["global"] # <<>>]
    [] OTHER -> [command |-> "None"]

(***************************************************************************)
(* The dispatcher: the match of main().                                    *)
(***************************************************************************)
\* The server arm with the address and the port exchanged.
ServerLineSwapped(s) ==
  <<Fmt_server_1, FmtNat(s.port), Fmt_server_2, s.addr, Fmt_server_3,
    FmtNat(s.verbose), Fmt_close>>

ServerLine(s) ==
  <<Fmt_server_1, s.addr, Fmt_server_2, FmtNat(s.port), Fmt_server_3,
    FmtNat(s.verbose), Fmt_close>>

\* The remote arm with the url looked at before the remove flag.
RemoteLineUrlFirst(r) ==
  IF r.url # <<>> THEN <<Fmt_added_1, r.name, Fmt_added_2, r.url[1]>>
  ELSE IF r.remove THEN <<Fmt_removed, r.name>>
  ELSE <<Fmt_info, r.name>>

\* The remote arm with the two branches without --remove exchanged.
RemoteLineSwapped(r) ==
  IF r.remove THEN <<Fmt_removed, r.name>>
  ELSE IF r.url # <<>> THEN <<Fmt_info, r.name>>
  ELSE <<Fmt_added_1, r.name, Fmt_added_2, r.name>>

RemoteLine(r) ==
  IF r.remove THEN <<Fmt_removed, r.name>>
  ELSE IF r.url # <<>> THEN <<Fmt_added_1, r.name, Fmt_added_2, r.url[1]>>
  ELSE <<Fmt_info, r.name>>

\* A remote arm whose last branch prints nothing.
RemoteOutputSilentInfo(r) ==
  IF ~r.remove /\ r.url = <<>> THEN <<>> ELSE <<RemoteLine(r)>>

\* What the remote arm writes: one println! on each branch.
RemoteOutput(r) == <<RemoteLine(r)>>

ConfigGetLine(g) ==
  <<Fmt_get_1, g.key, Fmt_get_2, FmtFormat(g.format), Fmt_close>>

\* The set arm with its two positional arguments exchanged.
ConfigSetLineSwapped(s) ==
  <<Fmt_set_1, s.value, Fmt_set_2, s.key, Fmt_set_3, FmtBool(s.global), Fmt_close>>

ConfigSetLine(s) ==
  <<Fmt_set_1, s.key, Fmt_set_2, s.value, Fmt_set_3, FmtBool(s.global), Fmt_close>>

(***************************************************************************)
(* The argument lists explored (argv[0] left out).                         *)
(***************************************************************************)
Tok_origin == <<"o","r","i","g","i","n">>
Tok_vim == <<"v","i","m">>
Tok_key == <<"c","o","r","e",".","e","d","i","t","o","r">>
Tok_urlval == <<"h","t","t","p","s",":","/","/","x">>
Tok_9090 == <<"9","0","9","0">>
Tok_99999 == <<"9","9","9","9","9">>
Tok_65535 == <<"6","5","5","3","5">>
Tok_65536 == <<"6","5","5","3","6">>
Tok_escape == <<"-","-">>

LongTok(name) == <<"-", "-">> \o name

LongTokWith(name, v) == <<"-", "-">> \o name \o <<"=">> \o v

ShortTok(c) == <<"-", c>>

\* -vv...v with n occurrences of v.
VCluster(n) == <<"-">> \o [i \in 1..n |-> "v"]

AnyTokens ==
  {Str_config, Str_get, Str_set, Str_server, Str_remote, Str_help, Tok_origin,
   LongTok(Str_help), ShortTok("h"), LongTok(Str_version), ShortTok("V"),
   Tok_escape, LongTok(Str_remove), ShortTok("v"), LongTok(Str_global),
   LongTok(Str_port)}

ServerTokens ==
  {LongTok(Str_port), ShortTok("p"), LongTok(Str_addr), ShortTok("v"), VCluster(2),
   LongTok(Str_verbose), VCluster(U8Max), Tok_9090, Tok_99999, Tok_65535,
   Tok_65536, Tok_origin, LongTokWith(Str_port, <<"-","1">>),
   ShortTok("p") \o Tok_9090}

RemoteTokens ==
  {Tok_origin, Tok_vim, Tok_urlval, LongTok(Str_url), LongTok(Str_remove),
   LongTokWith(Str_url, Tok_urlval), LongTok(Str_help), Tok_escape}

GetTokens ==
  {Tok_key, Tok_vim, LongTok(Str_format), Str_plain, Str_json, Str_Plain,
   LongTokWith(Str_format, Str_json), LongTok(Str_global), LongTok(Str_help),
   Tok_escape}

SetTokens ==
  {Tok_key, Tok_vim, LongTok(Str_global), LongTokWith(Str_global, Str_true),
   LongTok(Str_format), LongTok(Str_help), Tok_escape}

SeqsUpTo(S, n) == UNION {[1..k -> S] : k \in 0..n}

ArgvSet ==
  SeqsUpTo(AnyTokens, MaxAnyArgs)
  \cup {<<Str_server>> \o t : t \in SeqsUpTo(ServerTokens, MaxServerArgs)}
  \cup {<<Str_remote>> \o t : t \in SeqsUpTo(RemoteTokens, MaxRemoteArgs)}
  \cup {<<Str_config, Str_get>> \o t : t \in SeqsUpTo(GetTokens, MaxGetArgs)}
  \cup {<<Str_config, Str_set>> \o t : t \in SeqsUpTo(SetTokens, MaxSetArgs)}

(***************************************************************************)
(* The program: main() parses, dispatches on the command, and returns.     *)
(* exitCode is <<>> while the process runs and <<code>> once it has exited.*)
(* engineOut is what the parsing engine itself displayed: "none", "help"   *)
(* or "version" (on standard output, exit 0), "error" (on standard error). *)
(* stdout holds the lines written by main().                               *)
(***************************************************************************)
Init ==
  /\ argv \in ArgvSet
  /\ pc = "parse"
  /\ opts = [command |-> "None"]
  /\ stdout = <<>>
  /\ engineOut = "none"
  /\ exitCode = <<>>

\* let opts = cli::Cli::parse();  -- success
ParseOk ==
  /\ pc = "parse"
  /\ LET r == Parse(argv)
     IN  /\ r.kind = "ok"
         /\ opts' = FromArgMatches(r.cmd, r.m)
  /\ pc' = "dispatch"
  /\ UNCHANGED <<argv, stdout, engineOut, exitCode>>

\* let opts = cli::Cli::parse();  -- help or version displayed, exit 0
ParseDisplay ==
  /\ pc = "parse"
  /\ LET r == Parse(argv)
     IN  /\ r.kind \in {"help", "version"}
         /\ engineOut' = r.kind
  /\ exitCode' = <<0>>
  /\ pc' = "done"
  /\ UNCHANGED <<argv, opts, stdout>>

\* let opts = cli::Cli::parse();  -- usage error reported, exit 2
ParseFail ==
  /\ pc = "parse"
  /\ Parse(argv).kind = "error"
  /\ engineOut' = "error"
  /\ exitCode' = <<2>>
  /\ pc' = "done"
  /\ UNCHANGED <<argv, opts, stdout>>

\* cli::Commands::Server(s) => ...
DispatchServer ==
  /\ pc = "dispatch"
  /\ opts.command = "Server"
  /\ stdout' = Append(stdout, ServerLine(opts))
  /\ pc' = "return"
  /\ UNCHANGED <<argv, opts, engineOut, exitCode>>

\* cli::Commands::Remote(r) => ...
DispatchRemote ==
  /\ pc = "dispatch"
  /\ opts.command = "Remote"
  /\ stdout' = stdout \o RemoteOutput(opts)
  /\ pc' = "return"
  /\ UNCHANGED <<argv, opts, engineOut, exitCode>>

\* cli::ConfigAction::Get(g) => ...
DispatchConfigGet ==
  /\ pc = "dispatch"
  /\ opts.command = "Config"
  /\ opts.action = "Get"
  /\ stdout' = Append(stdout, ConfigGetLine(opts))
  /\ pc' = "return"
  /\ UNCHANGED <<argv, opts, engineOut, exitCode>>

\* cli::ConfigAction::Set(s) => ...
DispatchConfigSet ==
  /\ pc = "dispatch"
  /\ opts.command = "Config"
  /\ opts.action = "Set"
  /\ stdout' = Append(stdout, ConfigSetLine(opts))
  /\ pc' = "return"
  /\ UNCHANGED <<argv, opts, engineOut, exitCode>>

\* main returns: the process exits with code 0.
Return ==
  /\ pc = "return"
  /\ exitCode' = <<0>>
  /\ pc' = "done"
  /\ UNCHANGED <<argv, opts, stdout, engineOut>>

Next ==
  \/ ParseOk
  \/ ParseDisplay
  \/ ParseFail
  \/ DispatchServer
  \/ DispatchRemote
  \/ DispatchConfigGet
  \/ DispatchConfigSet
  \/ Return

Spec == Init /\ [][Next]_vars

(***************************************************************************)
(* Reading the command line, for the properties: what the user wrote,      *)
(* found by scanning the tokens, independently of the parsing engine.      *)
(***************************************************************************)
Line_server_default == <<"s","e","r","v","e","r"," ","s","t","a","r","t"," ","o","n"," ","1","2","7",".","0",".","0",".","1",":","8","0","8","0"," ","(","v","e","r","b","o","s","i","t","y",":"," ","0",")">>

Line_added_example == <<"r","e","m","o","t","e"," ","a","d","d","e","d",":"," ","o","r","i","g","i","n"," ","-",">"," ","h","t","t","p","s",":","/","/","x">>

Line_set_example == <<"c","o","n","f","i","g"," ","s","e","t"," ","c","o","r","e",".","e","d","i","t","o","r","=","v","i","m"," ","(","g","l","o","b","a","l",":"," ","t","r","u","e",")">>

IsDashed(t) == t # <<>> /\ t[1] = "-"

\* The tokens before the first `--` (all of them when there is none).
BeforeEscape(args) ==
  LET e == {i \in 1..Len(args) : args[i] = Tok_escape}
  IN  IF e = {} THEN 1..Len(args)
      ELSE 1..((CHOOSE i \in e : \A j \in e : i <= j) - 1)

\* A request for help or version somewhere on the line.
HelpToken(t) ==
  \/ t = Str_help
  \/ t \in {LongTok(Str_help), LongTok(Str_version)}
  \/ IsShort(t) /\ \E i \in 2..Len(t) : t[i] \in {"h", "V"}

AsksHelp(args) == \E i \in 1..Len(args) : HelpToken(args[i])

\* Is the presence flag --name written (before any `--`)?
FlagGiven(args, name) == \E i \in BeforeEscape(args) : args[i] = LongTok(name)

\* Does token t write the option, as --name, --name=v, -c or a cluster
\* that contains c (c = "" for an option without a short form)?
WritesOption(t, name, c) ==
  \/ t = LongTok(name)
  \/ Len(t) > Len(name) + 2 /\ SubSeq(t, 1, Len(name) + 3) = LongTok(name) \o <<"=">>
  \/ c # "" /\ IsShort(t) /\ IndexOf(t, c) # 0

\* The value written for an option: <<>> when the option is not written,
\* else <<v>> for its first occurrence (the next token, or the attached text).
OptionValue(args, name, c) ==
  LET at == {i \in BeforeEscape(args) : WritesOption(args[i], name, c)}
  IN  IF at = {} THEN <<>>
      ELSE LET i    == CHOOSE k \in at : \A j \in at : k <= j
               t    == args[i]
               rest == IF IsLong(t) THEN Drop(t, Len(name) + 2) ELSE Drop(t, IndexOf(t, c))
           IN  IF rest # <<>>
               THEN <<IF Head(rest) = "=" THEN Tail(rest) ELSE rest>>
               ELSE IF i < Len(args) THEN <<args[i + 1]>> ELSE <<>>

\* The positional words of a command's arguments: what is neither a flag,
\* nor an option of valueOpts, nor the value that follows such an option;
\* after `--`, everything.
RECURSIVE PositionalWords(_, _, _, _)
PositionalWords(args, i, valueOpts, trailing) ==
  IF i > Len(args) THEN <<>>
  ELSE IF trailing THEN <<args[i]>> \o PositionalWords(args, i + 1, valueOpts, TRUE)
  ELSE IF args[i] = Tok_escape THEN PositionalWords(args, i + 1, valueOpts, TRUE)
  ELSE IF args[i] \in valueOpts THEN PositionalWords(args, i + 2, valueOpts, FALSE)
  ELSE IF IsDashed(args[i]) /\ Len(args[i]) > 1 THEN PositionalWords(args, i + 1, valueOpts, FALSE)
  ELSE <<args[i]>> \o PositionalWords(args, i + 1, valueOpts, FALSE)

\* The number of times -v / --verbose is written.
RECURSIVE VerboseOccurrences(_, _)
VerboseOccurrences(args, i) ==
  IF i > Len(args) THEN 0
  ELSE (IF args[i] = LongTok(Str_verbose) THEN 1
        ELSE IF IsShort(args[i])
        THEN Cardinality({j \in 2..Len(args[i]) : args[i][j] = "v"})
        ELSE 0) + VerboseOccurrences(args, i + 1)

IsServer(args) == args # <<>> /\ args[1] = Str_server

IsRemote(args) == args # <<>> /\ args[1] = Str_remote

IsConfigGet(args) == Len(args) >= 2 /\ args[1] = Str_config /\ args[2] = Str_get

IsConfigSet(args) == Len(args) >= 2 /\ args[1] = Str_config /\ args[2] = Str_set

PortGiven == OptionValue(argv, Str_port, "p")

AddrGiven == OptionValue(argv, Str_addr, "")

UrlGiven == OptionValue(argv, Str_url, "")

FormatGiven == OptionValue(argv, Str_format, "")

\* The process ended on a usage error without dispatching.
Rejected ==
  /\ pc \in {"parse", "done"}
  /\ stdout = <<>>
  /\ opts.command = "None"
  /\ pc = "done" => exitCode # <<>> /\ exitCode[1] # 0 /\ engineOut = "error"

\* The process ended after a successful dispatch.
Dispatched == pc = "done" /\ engineOut = "none" /\ exitCode = <<0>>

\* The kinds of grammar violation, read off the command line.
UnknownSubcommand(args) ==
  \/ /\ args # <<>>
     /\ ~IsDashed(args[1])
     /\ args[1] \notin {Str_config, Str_server, Str_remote, Str_help}
  \/ /\ Len(args) >= 2
     /\ args[1] = Str_config
     /\ ~IsDashed(args[2])
     /\ args[2] \notin {Str_get, Str_set, Str_help}

MissingPositional(args) ==
  \/ IsRemote(args) /\ PositionalWords(args, 2, {LongTok(Str_url)}, FALSE) = <<>>
  \/ IsConfigGet(args) /\ PositionalWords(args, 3, {LongTok(Str_format)}, FALSE) = <<>>
  \/ IsConfigSet(args) /\ Len(PositionalWords(args, 3, {}, FALSE)) < 2

BadPortTexts == {Tok_99999, Tok_65536, Tok_origin, <<"-", "1">>}

BadFormatTexts == {Str_Plain, Tok_vim, Tok_key}

BadTypedValue(args) ==
  \/ IsServer(args) /\ PortGiven # <<>> /\ PortGiven[1] \in BadPortTexts
  \/ IsConfigGet(args) /\ FormatGiven # <<>> /\ FormatGiven[1] \in BadFormatTexts

GrammarViolation(args) ==
  UnknownSubcommand(args) \/ MissingPositional(args) \/ BadTypedValue(args)

(***************************************************************************)
(* Properties.                                                             *)
(***************************************************************************)

\* C1: every argument list the grammar accepts leads to exactly one line on
\* standard output, written before the exit, and to exit code 0; at no time
\* is there more than one line.
C1_OneLineThenExitZero ==
  /\ Len(stdout) <= 1
  /\ pc = "dispatch" => stdout = <<>> /\ exitCode = <<>>
  /\ pc = "return" => Len(stdout) = 1 /\ exitCode = <<>>
  /\ pc = "done" /\ Parse(argv).kind = "ok" => Len(stdout) = 1 /\ exitCode = <<0>>

C1_Witness ==
  /\ pc = "done"
  /\ Parse(argv).kind = "ok"
  /\ opts.command = "Remote"
  /\ ~opts.remove
  /\ opts.url = <<>>
  /\ Len(stdout) = 1

\* C2: an argument list that violates the grammar (unknown subcommand,
\* missing positional, bad typed value) ends with a non-zero exit code and
\* nothing on standard output (stated as: a run that is not rejected has no
\* such violation, unless it asks for help); and whenever a usage error is
\* reported the dispatcher has not run.
C2_ViolationNeverDispatches ==
  /\ ~Rejected => AsksHelp(argv) \/ ~GrammarViolation(argv)
  /\ engineOut = "error" => Rejected /\ pc = "done"
  /\ stdout # <<>> => engineOut = "none"

C2_Witness ==
  /\ pc = "done"
  /\ BadTypedValue(argv)
  /\ ~AsksHelp(argv)
  /\ exitCode = <<2>>
  /\ stdout = <<>>

\* C3: in remote, when --remove is written the line is "remote removed: "
\* followed by the name, whether or not --url is written too.
C3_RemoveWins ==
  Dispatched /\ IsRemote(argv) /\ FlagGiven(argv, Str_remove) =>
    stdout = << <<Fmt_removed, PositionalWords(argv, 2, {LongTok(Str_url)}, FALSE)[1]>> >>

C3_Witness ==
  /\ IsRemote(argv)
  /\ FlagGiven(argv, Str_remove)
  /\ UrlGiven = <<Tok_urlval>>
  /\ Dispatched
  /\ stdout = << <<Fmt_removed, Tok_origin>> >>

\* C4: a --port value outside 0..65535 is rejected without dispatch, and
\* the port printed by the server line is the decimal form of the number
\* written on the command line (8080 when none is written), in 0..65535.
C4_PortInRange ==
  /\ ~Rejected /\ IsServer(argv) /\ PortGiven # <<>> /\ ~AsksHelp(argv)
     => LET r == ParseInt(PortGiven[1]) IN r.ok /\ r.val >= 0 /\ r.val <= U16Max
  /\ stdout # <<>> /\ IsServer(argv) =>
       LET n == IF PortGiven = <<>> THEN DefaultPortValue ELSE ParseInt(PortGiven[1]).val
       IN  /\ n \in 0..U16Max
           /\ stdout[1][4] = FmtNat(n)

C4_Witness ==
  /\ IsServer(argv)
  /\ PortGiven = <<Tok_65535>>
  /\ Dispatched
  /\ stdout[1][4] = Tok_65535

\* C5 as stated: the verbosity printed equals the number of occurrences of
\* -v / --verbose, for every number of occurrences.
C5_VerbosityIsOccurrences ==
  stdout # <<>> /\ IsServer(argv) =>
    stdout[1][6] = FmtNat(VerboseOccurrences(argv, 2))

\* C5 amended: the verbosity printed equals the number of occurrences of
\* -v / --verbose up to 255, and is 255 for any larger number.
C5_VerbosityIsOccurrencesUpTo255 ==
  stdout # <<>> /\ IsServer(argv) =>
    stdout[1][6] = FmtNat(Min(VerboseOccurrences(argv, 2), U8Max))

C5_Witness ==
  /\ IsServer(argv)
  /\ Dispatched
  /\ VerboseOccurrences(argv, 2) > U8Max
  /\ stdout[1][6] = FmtNat(U8Max)

\* C6: in server, a field whose flag is not written takes its default
\* (127.0.0.1, 8080, 0) whatever the other flags are, a written address is
\* printed as written, and no flag at all gives
\* "server start on 127.0.0.1:8080 (verbosity: 0)".
C6_ServerDefaults ==
  stdout # <<>> /\ IsServer(argv) =>
    LET line == stdout[1]
    IN  /\ Len(line) = 7
        /\ <<line[1], line[3], line[5], line[7]>>
             = <<Fmt_server_1, Fmt_server_2, Fmt_server_3, Fmt_close>>
        /\ line[2] = IF AddrGiven = <<>> THEN DefaultAddr ELSE AddrGiven[1]
        /\ PortGiven = <<>> => line[4] = <<"8","0","8","0">>
        /\ VerboseOccurrences(argv, 2) = 0 => line[6] = <<"0">>
        /\ argv = <<Str_server>> => Text(line) = Line_server_default

C6_Witness ==
  /\ argv = <<Str_server>>
  /\ Dispatched
  /\ Text(stdout[1]) = Line_server_default

\* C7: in config get, a --format value other than plain and json is
\* rejected; the line is "config get {key} (format: Json)" when json is
\* written and "config get {key} (format: Plain)" when plain or no format
\* is written.
C7_FormatValues ==
  /\ ~Rejected /\ IsConfigGet(argv) /\ FormatGiven # <<>> /\ ~AsksHelp(argv)
     => FormatGiven[1] \in {Str_plain, Str_json}
  /\ stdout # <<>> /\ IsConfigGet(argv) =>
       stdout[1] = <<Fmt_get_1, PositionalWords(argv, 3, {LongTok(Str_format)}, FALSE)[1],
                     Fmt_get_2,
                     IF FormatGiven = <<Str_json>> THEN Str_Json ELSE Str_Plain,
                     Fmt_close>>

C7_Witness ==
  /\ IsConfigGet(argv)
  /\ FormatGiven = <<Str_json>>
  /\ Dispatched
  /\ stdout = << <<Fmt_get_1, Tok_key, Fmt_get_2, Str_Json, Fmt_close>> >>

\* C8: in remote without --remove, the line is "remote added: {name} ->
\* {u}" when --url u is written and "remote info requested: {name}" when it
\* is not; every remote line is exactly one of removed, added, info.
C8_UrlDecides ==
  Dispatched /\ IsRemote(argv) =>
    LET name == PositionalWords(argv, 2, {LongTok(Str_url)}, FALSE)[1]
        line == stdout[1]
    IN  /\ Len(stdout) = 1
        /\ Cardinality({f \in {Fmt_removed, Fmt_added_1, Fmt_info} : line[1] = f}) = 1
        /\ line[1] = Fmt_removed <=> FlagGiven(argv, Str_remove)
        /\ ~FlagGiven(argv, Str_remove) /\ UrlGiven # <<>> =>
             line = <<Fmt_added_1, name, Fmt_added_2, UrlGiven[1]>>
        /\ ~FlagGiven(argv, Str_remove) /\ UrlGiven = <<>> =>
             line = <<Fmt_info, name>>

C8_Witness ==
  /\ IsRemote(argv)
  /\ ~FlagGiven(argv, Str_remove)
  /\ Dispatched
  /\ Text(stdout[1]) = Line_added_example

\* C9: in config set, the line is "config set {key}={value} (global: {g})"
\* with key and value the two positionals in the order written and g true
\* exactly when --global is written; fewer than two positionals is rejected.
C9_ConfigSet ==
  /\ ~Rejected /\ IsConfigSet(argv) /\ ~AsksHelp(argv)
     => Len(PositionalWords(argv, 3, {}, FALSE)) >= 2
  /\ stdout # <<>> /\ IsConfigSet(argv) =>
       LET p == PositionalWords(argv, 3, {}, FALSE)
       IN  stdout[1] = <<Fmt_set_1, p[1], Fmt_set_2, p[2], Fmt_set_3,
                         FmtBool(FlagGiven(argv, Str_global)), Fmt_close>>

C9_Witness ==
  /\ argv = <<Str_config, Str_set, Tok_key, Tok_vim, LongTok(Str_global)>>
  /\ Dispatched
  /\ Text(stdout[1]) = Line_set_example

\* C10: a command that reaches the dispatcher is exactly one of Config,
\* Server, Remote, the one named first on the command line, and a Config is
\* exactly one of Get, Set, the one named second; a line with no subcommand,
\* or with config and no action, is rejected.
C10_OneVariant ==
  /\ pc \in {"dispatch", "return"} \/ stdout # <<>> =>
       /\ opts.command \in {"Config", "Server", "Remote"}
       /\ opts.command = "Server" <=> IsServer(argv)
       /\ opts.command = "Remote" <=> IsRemote(argv)
       /\ opts.command = "Config" =>
            /\ opts.action \in {"Get", "Set"}
            /\ opts.action = "Get" <=> IsConfigGet(argv)
            /\ opts.action = "Set" <=> IsConfigSet(argv)
  /\ ~Rejected /\ ~AsksHelp(argv) =>
       /\ argv # <<>>
       /\ argv[1] \in {Str_config, Str_server, Str_remote}
       /\ argv[1] = Str_config => Len(argv) > 1 /\ argv[2] \in {Str_get, Str_set}

C10_Witness ==
  /\ argv = <<Str_config>>
  /\ pc = "done"
  /\ exitCode = <<2>>
  /\ stdout = <<>>

====
